---- MODULE Spec2Model ----
(***************************************************************************)
(* A model of the Ujeebu LangChain integration: the UjeebuLoader document  *)
(* loader (src/src/document-loaders/ujeebu-loader.ts) and the              *)
(* UjeebuExtractTool agent tool (the second half of src/src/types.ts).     *)
(*                                                                         *)
(* A run of the model is one use of the package: the process environment   *)
(* holds (or not) UJEEBU_API_KEY, one instance is constructed, and its     *)
(* load() / _call() is invoked; every axios.get the code issues stays      *)
(* pending until the network settles it with one of the Outcomes.          *)
(* JavaScript runs each handler to completion, so the synchronous part of  *)
(* a call, each continuation after an await and each promise callback are  *)
(* single actions; the callbacks that are ready wait in the microtask      *)
(* queue and run in the order in which they were queued.                   *)
(***************************************************************************)
EXTENDS Integers, Sequences, FiniteSets, TLC

VARIABLES
    env,      \* process.env.UJEEBU_API_KEY, a JS value
    ctor,     \* the constructor call made so far: component, params, env then
    loader,   \* the fields of the UjeebuLoader instance, or NoInstance
    tool,     \* the fields of the UjeebuExtractTool instance, or NoInstance
    thrown,   \* the exceptions that escaped a constructor, in order
    loads,    \* one record per load() call: its promises and its result
    calls,    \* one record per _call() call: its request and its result
    console,  \* the console.error entries written, in order
    microtasks \* the .then callbacks that are queued, first in first out

vars == <<env, ctor, loader, tool, thrown, loads, calls, console, microtasks>>

-----------------------------------------------------------------------------
(* JavaScript values.  Every value is a record tagged with its type; the   *)
(* payload field differs per type, so values of different types compare    *)
(* unequal.                                                                *)

Undefined == [t |-> "undefined"]
Null == [t |-> "null"]
Str(s) == [t |-> "string", s |-> s]
Bool(b) == [t |-> "boolean", b |-> b]
Num(n) == [t |-> "number", n |-> n]
Arr(a) == [t |-> "array", a |-> a]
\* An object is the sequence of its members, in insertion order.
Obj(m) == [t |-> "object", m |-> m]
Member(k, v) == [k |-> k, v |-> v]

\* ToBoolean: what `!x`, `x || y`, `x && y` and `x ? a : b` test.
Truthy(v) ==
    CASE v.t = "undefined" -> FALSE
      [] v.t = "null" -> FALSE
      [] v.t = "string" -> v.s # ""
      [] v.t = "boolean" -> v.b
      [] v.t = "number" -> v.n # 0
      [] OTHER -> TRUE

\* a || b
OrElse(a, b) == IF Truthy(a) THEN a ELSE b

\* a ?? b
Nullish(a, b) == IF a.t \in {"undefined", "null"} THEN b ELSE a

\* Reading a property of null or undefined throws a TypeError.
IsNullish(v) == v.t \in {"undefined", "null"}

RECURSIVE LastIndexOfKey(_, _, _)
LastIndexOfKey(m, k, i) ==
    IF i = 0 THEN 0
    ELSE IF m[i].k = k THEN i
    ELSE LastIndexOfKey(m, k, i - 1)

\* o.k for a non-nullish o: the member's value, undefined when there is none
\* (a primitive has none of the properties the code reads).
Get(o, k) ==
    IF o.t # "object" THEN Undefined
    ELSE LET i == LastIndexOfKey(o.m, k, Len(o.m))
         IN IF i = 0 THEN Undefined ELSE o.m[i].v

\* o has an own property k.
HasOwn(o, k) == o.t = "object" /\ LastIndexOfKey(o.m, k, Len(o.m)) # 0

\* What V8 says when a property of null or undefined is read.
TypeErrorMessage(v, k) ==
    "Cannot read properties of " \o v.t \o " (reading '" \o k \o "')"

-----------------------------------------------------------------------------
(* Construction.                                                           *)

DefaultBaseUrl == "https://api.ujeebu.com/extract"

ApiKeyErrorMessage ==
    "Ujeebu API key must be provided either through apiKey parameter "
        \o "or UJEEBU_API_KEY environment variable. "
        \o "Get your API key at https://ujeebu.com/signup"

NoInstance == [t |-> "none"]
NoCtor == [component |-> "none"]

\* A faulty resolution: the environment variable is tried first.
ResolveApiKeyEnvFirst(paramKey, envKey) == OrElse(OrElse(envKey, paramKey), Str(""))

\* this.apiKey = params.apiKey || process.env.UJEEBU_API_KEY || ''
ResolveApiKey(paramKey, envKey) == OrElse(OrElse(paramKey, envKey), Str(""))

\* The field assignments of the UjeebuLoader constructor.
LoaderFields(params, envKey) ==
    [urls |-> params.urls,
     apiKey |-> ResolveApiKey(params.apiKey, envKey),
     extractText |-> Nullish(params.extractText, Bool(TRUE)),
     extractHtml |-> Nullish(params.extractHtml, Bool(FALSE)),
     extractAuthor |-> Nullish(params.extractAuthor, Bool(TRUE)),
     extractPubDate |-> Nullish(params.extractPubDate, Bool(TRUE)),
     extractImages |-> Nullish(params.extractImages, Bool(FALSE)),
     quickMode |-> Nullish(params.quickMode, Bool(FALSE)),
     baseUrl |-> OrElse(params.baseUrl, Str(DefaultBaseUrl))]

\* params?.k: the constructor's argument may be left out altogether.
OptionalParam(params, k) == IF IsNullish(params) THEN Undefined ELSE params[k]

\* The field assignments of the UjeebuExtractTool constructor.
ToolFields(params, envKey) ==
    [apiKey |-> ResolveApiKey(OptionalParam(params, "apiKey"), envKey),
     baseUrl |-> OrElse(OptionalParam(params, "baseUrl"), Str(DefaultBaseUrl))]

\* A faulty check: only an undefined key is refused, and the '' the
\* resolution falls back to is never undefined.
ApiKeyUndefined(fields) == fields.apiKey.t = "undefined"

\* if (!this.apiKey) throw new Error(...)
ApiKeyMissing(fields) == ~Truthy(fields.apiKey)

-----------------------------------------------------------------------------
(* The HTTP layer: what the code hands to axios.get, and how axios settles  *)
(* the promise it returned.                                                *)

TimeoutMs == 60000

\* A faulty encoding: x !== undefined ? 1 : 0.
FlagIfGiven(v) == IF v.t # "undefined" THEN 1 ELSE 0

\* x ? 1 : 0
Flag(v) == IF Truthy(v) THEN 1 ELSE 0

\* The promise of axios.get resolves with a response (a 2xx status and the
\* parsed body) or rejects with an error.  An AxiosError is an Error; a
\* rejection with a plain object (as the test suites mock it) is not.
Response(data) == [kind |-> "response", status |-> 200, data |-> data]
HttpError(status) ==
    [kind |-> "error", isAxiosError |-> TRUE, hasResponse |-> TRUE,
     status |-> status, instanceofError |-> TRUE,
     message |-> "Request failed with status code " \o ToString(status)]
NetworkError(message) ==
    [kind |-> "error", isAxiosError |-> TRUE, hasResponse |-> FALSE,
     status |-> 0, instanceofError |-> TRUE, message |-> message]
PlainError(message) ==
    [kind |-> "error", isAxiosError |-> FALSE, hasResponse |-> FALSE,
     status |-> 0, instanceofError |-> TRUE, message |-> message]
MockedHttpError(status) ==
    [kind |-> "error", isAxiosError |-> TRUE, hasResponse |-> TRUE,
     status |-> status, instanceofError |-> FALSE, message |-> ""]

\* A faulty text: String(error) for an Error too, which puts its name first.
ErrorTextOfString(error) ==
    IF error.instanceofError THEN "Error: " \o error.message ELSE "[object Object]"

\* error instanceof Error ? error.message : String(error)
ErrorText(error) ==
    IF error.instanceofError THEN error.message ELSE "[object Object]"

NoOutcome == [kind |-> "none"]

-----------------------------------------------------------------------------
(* UjeebuLoader.                                                           *)

\* The arguments of axios.get in extractArticle.
LoaderRequest(fields, url) ==
    [method |-> "GET",
     baseUrl |-> fields.baseUrl,
     params |-> [url |-> Str(url),
                 text |-> Flag(fields.extractText),
                 html |-> Flag(fields.extractHtml),
                 author |-> Flag(fields.extractAuthor),
                 pub_date |-> Flag(fields.extractPubDate),
                 images |-> Flag(fields.extractImages),
                 quick_mode |-> Flag(fields.quickMode)],
     headers |-> [ApiKey |-> fields.apiKey],
     timeout |-> TimeoutMs]

\* console.error(`Error extracting article from ${url}:`, message)
ConsoleEntry(url, message) ==
    <<"Error extracting article from " \o url \o ":", message>>

\* The catch block of extractArticle: report, and resolve with null.
ExtractArticleCatch(url, message) ==
    [state |-> "fulfilled", value |-> Null, log |-> <<ConsoleEntry(url, message)>>]

\* extractArticle after its await: how the promise it returned settles, and
\* what it writes to the console.  `return response.data.article` is inside
\* the try block, so a body that is null lands in the catch block too.
ExtractArticle(url, outcome) ==
    IF outcome.kind = "response"
    THEN IF IsNullish(outcome.data)
         THEN ExtractArticleCatch(url, TypeErrorMessage(outcome.data, "article"))
         ELSE [state |-> "fulfilled", value |-> Get(outcome.data, "article"),
               log |-> <<>>]
    ELSE ExtractArticleCatch(url, ErrorText(outcome))

\* A promise that is not settled yet.
Unsettled == [state |-> "pending", value |-> Undefined]

\* .then((article) => ({ url, article })): a rejection passes through.
ThenPair(url, settled) ==
    IF settled.state = "fulfilled"
    THEN [state |-> "fulfilled", value |-> [url |-> url, article |-> settled.value]]
    ELSE [state |-> "rejected", value |-> [url |-> url, article |-> Undefined]]

\* parts.join(sep) for an array of strings.
RECURSIVE Join(_, _)
Join(parts, sep) ==
    IF parts = <<>> THEN ""
    ELSE IF Len(parts) = 1 THEN parts[1]
    ELSE parts[1] \o sep \o Join(Tail(parts), sep)

\* The outcome of an expression that yields a string or throws.
Text(s) == [threw |-> FALSE, message |-> "", text |-> s]
ThrowText(m) == [threw |-> TRUE, message |-> m, text |-> ""]

\* What V8 says when an object has no usable toString or valueOf.
ConvertErrorMessage == "Cannot convert object to primitive value"

\* String(x) as Array.prototype.join applies it to an element: '' for
\* undefined and null, for an array (of strings) its elements joined with
\* ',', and for an object what its toString method returns.  An object that
\* was parsed from JSON inherits Object.prototype.toString unless it has an
\* own property toString; that property holds no function, the inherited
\* valueOf returns the object itself, and the conversion throws a TypeError.
JoinText(v) ==
    CASE v.t = "string" -> Text(v.s)
      [] v.t = "number" -> Text(ToString(v.n))
      [] v.t = "boolean" -> Text(IF v.b THEN "true" ELSE "false")
      [] v.t = "object" -> IF HasOwn(v, "toString")
                           THEN ThrowText(ConvertErrorMessage)
                           ELSE Text("[object Object]")
      [] v.t = "array" -> Text(Join(v.a, ","))
      [] OTHER -> Text("")

\* `${x}`
TemplateText(v) ==
    CASE v.t = "undefined" -> Text("undefined")
      [] v.t = "null" -> Text("null")
      [] OTHER -> JoinText(v)

\* The parts of a content, as strings, or the TypeError of the conversion
\* that throws first: the template literal of the HTML part (line 155), then
\* the join, which converts the text part (line 158).
PartsOf(hasText, text, hasHtml, html) ==
    IF hasHtml /\ TemplateText(html).threw
    THEN [threw |-> TRUE, message |-> TemplateText(html).message, parts |-> <<>>]
    ELSE IF hasText /\ JoinText(text).threw
    THEN [threw |-> TRUE, message |-> JoinText(text).message, parts |-> <<>>]
    ELSE [threw |-> FALSE, message |-> "",
          parts |-> (IF hasText THEN <<JoinText(text).text>> ELSE <<>>)
                    \o (IF hasHtml THEN <<"HTML: " \o TemplateText(html).text>>
                        ELSE <<>>)]

\* A faulty buildDocument: the flags are not consulted.
ContentPartsWhateverFlags(fields, article) ==
    PartsOf(Truthy(Get(article, "text")), Get(article, "text"),
            Truthy(Get(article, "html")), Get(article, "html"))

\* The contentParts of buildDocument, as contentParts.join converts them.
ContentParts(fields, article) ==
    PartsOf(Truthy(fields.extractText) /\ Truthy(Get(article, "text")),
            Get(article, "text"),
            Truthy(fields.extractHtml) /\ Truthy(Get(article, "html")),
            Get(article, "html"))

\* if (cond) metadata.k = v
WithKey(metadata, cond, k, v) == IF cond THEN metadata @@ (k :> v) ELSE metadata

\* A property the code copies when it is truthy, under a flag or always.
CopyIf(metadata, enabled, article, k) ==
    WithKey(metadata, enabled /\ Truthy(Get(article, k)), k, Get(article, k))

\* A faulty buildDocument: `source` taken from the article's own url.
MetadataSourceFromArticle(fields, url, article) ==
    ("source" :> OrElse(Get(article, "url"), Str(url)))
    @@ ("url" :> OrElse(Get(article, "url"), Str(url)))
    @@ ("canonical_url" :> OrElse(Get(article, "canonical_url"), Str(url)))

\* A faulty buildDocument: the article's own URLs are not looked at.
MetadataRequestedUrlOnly(fields, url, article) ==
    ("source" :> Str(url)) @@ ("url" :> Str(url)) @@ ("canonical_url" :> Str(url))

\* The metadata of buildDocument.
Metadata(fields, url, article) ==
    LET m0 == ("source" :> Str(url))
              @@ ("url" :> OrElse(Get(article, "url"), Str(url)))
              @@ ("canonical_url" :> OrElse(Get(article, "canonical_url"), Str(url)))
        m1 == CopyIf(m0, TRUE, article, "title")
        m2 == CopyIf(m1, Truthy(fields.extractAuthor), article, "author")
        m3 == CopyIf(m2, Truthy(fields.extractPubDate), article, "pub_date")
        m4 == CopyIf(m3, TRUE, article, "language")
        m5 == CopyIf(m4, TRUE, article, "site_name")
        m6 == CopyIf(m5, TRUE, article, "summary")
        m7 == CopyIf(m6, TRUE, article, "image")
    IN CopyIf(m7, Truthy(fields.extractImages), article, "images")

NoDocument == [pageContent |-> "", metadata |-> <<>>]

\* The first property buildDocument reads of article: text and html are read
\* only behind their flag (`this.extractText && article.text`), url always.
FirstPropertyRead(fields) ==
    IF Truthy(fields.extractText) THEN "text"
    ELSE IF Truthy(fields.extractHtml) THEN "html"
    ELSE "url"

\* buildDocument: the document, or the TypeError it throws: that of the first
\* property read of article when article is null or undefined, that of the
\* template literal or of the join when the HTML or the text of the article
\* cannot be converted to a string.
BuildDocument(fields, url, article) ==
    IF IsNullish(article)
    THEN [threw |-> TRUE,
          message |-> TypeErrorMessage(article, FirstPropertyRead(fields)),
          doc |-> NoDocument]
    ELSE IF ContentParts(fields, article).threw
    THEN [threw |-> TRUE, message |-> ContentParts(fields, article).message,
          doc |-> NoDocument]
    ELSE [threw |-> FALSE, message |-> "",
          doc |-> [pageContent |-> Join(ContentParts(fields, article).parts, "\n\n"),
                   metadata |-> Metadata(fields, url, article)]]

\* result.status === 'fulfilled' && result.value.article
KeepsResult(task) == task.state = "fulfilled" /\ Truthy(task.value.article)

\* A faulty loop: it goes through the results in the order in which they
\* completed (the i-th to complete is taken i-th), not in that of the list.
RECURSIVE CollectDocumentsInCompletionOrder(_, _, _, _)
CollectDocumentsInCompletionOrder(fields, tasks, i, docs) ==
    IF i > Len(tasks) THEN [threw |-> FALSE, message |-> "", docs |-> docs]
    ELSE LET t == IF \E k \in DOMAIN tasks : tasks[k].at = i
                  THEN CHOOSE k \in DOMAIN tasks : tasks[k].at = i
                  ELSE i
         IN IF ~KeepsResult(tasks[t])
            THEN CollectDocumentsInCompletionOrder(fields, tasks, i + 1, docs)
            ELSE LET b == BuildDocument(fields, tasks[t].value.url, tasks[t].value.article)
                 IN IF b.threw
                    THEN [threw |-> TRUE, message |-> b.message, docs |-> <<>>]
                    ELSE CollectDocumentsInCompletionOrder(fields, tasks, i + 1,
                                                           Append(docs, b.doc))

\* A faulty loop: a result that completed after a result that is not kept
\* is dropped, as if the first failure had ended the wait.
RECURSIVE CollectDocumentsBeforeFailure(_, _, _, _)
CollectDocumentsBeforeFailure(fields, tasks, i, docs) ==
    IF i > Len(tasks) THEN [threw |-> FALSE, message |-> "", docs |-> docs]
    ELSE IF \/ ~KeepsResult(tasks[i])
            \/ \E k \in DOMAIN tasks : ~KeepsResult(tasks[k]) /\ tasks[k].at < tasks[i].at
    THEN CollectDocumentsBeforeFailure(fields, tasks, i + 1, docs)
    ELSE LET b == BuildDocument(fields, tasks[i].value.url, tasks[i].value.article)
         IN IF b.threw
            THEN [threw |-> TRUE, message |-> b.message, docs |-> <<>>]
            ELSE CollectDocumentsBeforeFailure(fields, tasks, i + 1, Append(docs, b.doc))

\* The loop of load() over the settled results, from result i on: the
\* documents pushed, or the exception of the first buildDocument that throws.
RECURSIVE CollectDocuments(_, _, _, _)
CollectDocuments(fields, tasks, i, docs) ==
    IF i > Len(tasks) THEN [threw |-> FALSE, message |-> "", docs |-> docs]
    ELSE IF ~KeepsResult(tasks[i])
    THEN CollectDocuments(fields, tasks, i + 1, docs)
    ELSE LET b == BuildDocument(fields, tasks[i].value.url, tasks[i].value.article)
         IN IF b.threw
            THEN [threw |-> TRUE, message |-> b.message, docs |-> <<>>]
            ELSE CollectDocuments(fields, tasks, i + 1, Append(docs, b.doc))

\* A faulty load(): a loop that awaits each extractArticle in turn has issued
\* the first request only when it first waits.
IssuedFirstTask(fields) ==
    [i \in 1..(IF Len(fields.urls) = 0 THEN 0 ELSE 1) |->
        [url |-> fields.urls[i],
         request |-> LoaderRequest(fields, fields.urls[i]),
         state |-> "pending",
         extracted |-> Unsettled,
         outcome |-> NoOutcome,
         at |-> 0,
         value |-> [url |-> fields.urls[i], article |-> Undefined]]]

\* The promises load() creates, one per entry of this.urls: this.urls.map
\* calls extractArticle for every URL before anything is awaited, and each
\* extractArticle calls axios.get before its own await.  `extracted` is the
\* promise extractArticle returned, `state` and `value` are those of the
\* promise .then made of it, the one Promise.allSettled is given.
IssuedTasks(fields) ==
    [i \in 1..Len(fields.urls) |->
        [url |-> fields.urls[i],
         request |-> LoaderRequest(fields, fields.urls[i]),
         state |-> "pending",
         extracted |-> Unsettled,
         outcome |-> NoOutcome,
         at |-> 0,
         value |-> [url |-> fields.urls[i], article |-> Undefined]]]

\* A faulty wait: Promise.race resumes as soon as one promise has settled.
AnySettled(tasks) == \E i \in 1..Len(tasks) : tasks[i].state # "pending"

\* A faulty wait: with no promise to wait for it never resumes.
AllSettledUnlessNone(tasks) ==
    tasks # <<>> /\ \A i \in 1..Len(tasks) : tasks[i].state # "pending"

\* await Promise.allSettled(promises) resumes once no promise is pending.
AllSettled(tasks) == \A i \in 1..Len(tasks) : tasks[i].state # "pending"

-----------------------------------------------------------------------------
(* JSON.  JSON.parse is modelled on the texts the model feeds it: objects  *)
(* (nested or not) whose values are strings without escapes, non-negative  *)
(* integers, true, false and null, with optional white space; any other    *)
(* text (a bare URL among them) raises a SyntaxError.  Arrays, escapes,    *)
(* signs, fractions and exponents are outside the modelled grammar.  A     *)
(* control character (U+0000 to U+001F) is white space between tokens when *)
(* it is a tab, a line feed or a carriage return, and a SyntaxError        *)
(* anywhere else, inside a string literal too.                             *)

Ch(s, i) == IF i >= 1 /\ i <= Len(s) THEN SubSeq(s, i, i) ELSE ""

StartsWithAt(s, i, w) ==
    i >= 1 /\ i + Len(w) - 1 <= Len(s) /\ SubSeq(s, i, i + Len(w) - 1) = w

WhiteSpace == {" ", "\t", "\n", "\r"}

\* The control characters a text of the model can hold.
ControlCharacters == {"\t", "\n", "\f", "\r"}
Digits == {"0", "1", "2", "3", "4", "5", "6", "7", "8", "9"}

DigitValue(c) ==
    CASE c = "0" -> 0 [] c = "1" -> 1 [] c = "2" -> 2 [] c = "3" -> 3
      [] c = "4" -> 4 [] c = "5" -> 5 [] c = "6" -> 6 [] c = "7" -> 7
      [] c = "8" -> 8 [] c = "9" -> 9

RECURSIVE SkipWs(_, _)
SkipWs(s, i) == IF Ch(s, i) \in WhiteSpace THEN SkipWs(s, i + 1) ELSE i

\* The position after the run of digits that starts at i.
RECURSIVE ScanDigits(_, _)
ScanDigits(s, i) == IF Ch(s, i) \in Digits THEN ScanDigits(s, i + 1) ELSE i

RECURSIVE DigitsValue(_, _, _, _)
DigitsValue(s, i, j, acc) ==
    IF i >= j THEN acc
    ELSE DigitsValue(s, i + 1, j, acc * 10 + DigitValue(Ch(s, i)))

\* The position of the quote that closes the string whose first character is
\* at i, or 0 when the string is not closed, holds an escape, or holds a raw
\* control character.
RECURSIVE ScanString(_, _)
ScanString(s, i) ==
    LET c == Ch(s, i)
    IN IF c = "" \/ c = "\\" \/ c \in ControlCharacters THEN 0
       ELSE IF c = "\"" THEN i
       ELSE ScanString(s, i + 1)

ParseFail == [ok |-> FALSE, v |-> Undefined, i |-> 0]
ParseOk(v, i) == [ok |-> TRUE, v |-> v, i |-> i]

ParseNumber(s, i) ==
    LET j == ScanDigits(s, i)
    IN IF j = i \/ (Ch(s, i) = "0" /\ j > i + 1) THEN ParseFail
       ELSE ParseOk(Num(DigitsValue(s, i, j, 0)), j)

ParseString(s, i) ==
    LET j == ScanString(s, i + 1)
    IN IF j = 0 THEN ParseFail ELSE ParseOk(Str(SubSeq(s, i + 1, j - 1)), j + 1)

RECURSIVE ParseValue(_, _)
RECURSIVE ParseMembers(_, _, _)

\* The members of an object from the key at i on, acc being those before it.
ParseMembers(s, i, acc) ==
    LET k == ParseString(s, SkipWs(s, i))
    IN IF Ch(s, SkipWs(s, i)) # "\"" \/ ~k.ok THEN ParseFail
       ELSE LET colon == SkipWs(s, k.i)
                r == ParseValue(s, colon + 1)
            IN IF Ch(s, colon) # ":" \/ ~r.ok THEN ParseFail
               ELSE LET next == SkipWs(s, r.i)
                        members == Append(acc, Member(k.v.s, r.v))
                    IN IF Ch(s, next) = "," THEN ParseMembers(s, next + 1, members)
                       ELSE IF Ch(s, next) = "}" THEN ParseOk(Obj(members), next + 1)
                       ELSE ParseFail

ParseValue(s, i0) ==
    LET i == SkipWs(s, i0)
        c == Ch(s, i)
    IN CASE c = "{" ->
              IF Ch(s, SkipWs(s, i + 1)) = "}"
              THEN ParseOk(Obj(<<>>), SkipWs(s, i + 1) + 1)
              ELSE ParseMembers(s, i + 1, <<>>)
         [] c = "\"" -> ParseString(s, i)
         [] c \in Digits -> ParseNumber(s, i)
         [] StartsWithAt(s, i, "true") -> ParseOk(Bool(TRUE), i + 4)
         [] StartsWithAt(s, i, "false") -> ParseOk(Bool(FALSE), i + 5)
         [] StartsWithAt(s, i, "null") -> ParseOk(Null, i + 4)
         [] OTHER -> ParseFail

\* JSON.parse(text): the value, or ok = FALSE for a SyntaxError.
JSONParse(text) ==
    LET r == ParseValue(text, 1)
    IN IF r.ok /\ SkipWs(text, r.i) = Len(text) + 1 THEN r ELSE ParseFail

\* JSON.stringify of a primitive or of an object of primitives: a member
\* whose value is undefined is left out.
StringifyValue(v) ==
    CASE v.t = "string" -> "\"" \o v.s \o "\""
      [] v.t = "number" -> ToString(v.n)
      [] v.t = "boolean" -> IF v.b THEN "true" ELSE "false"
      [] OTHER -> "null"

RECURSIVE StringifyMembers(_, _)
StringifyMembers(m, i) ==
    IF i > Len(m) THEN <<>>
    ELSE (IF m[i].v.t = "undefined" THEN <<>>
          ELSE <<"\"" \o m[i].k \o "\":" \o StringifyValue(m[i].v)>>)
         \o StringifyMembers(m, i + 1)

JSONStringify(v) ==
    IF v.t = "object" THEN "{" \o Join(StringifyMembers(v.m, 1), ",") \o "}"
    ELSE StringifyValue(v)

-----------------------------------------------------------------------------
(* UjeebuExtractTool.                                                      *)

NoInputError == "Error: No URL provided. Please provide a valid article URL."

\* A faulty fallback: a text that is no JSON leaves params empty.
ParseInputNoFallback(input) ==
    LET r == JSONParse(input.s)
    IN IF r.ok THEN r.v ELSE Obj(<<>>)

\* try { params = JSON.parse(input) } catch { params = { url: input } }
ParseInput(input) ==
    LET r == JSONParse(input.s)
    IN IF r.ok THEN r.v ELSE Obj(<<Member("url", input)>>)

\* A faulty default: `v || d` replaces an explicit false as well.
DefaultIfFalsy(v, d) == IF Truthy(v) THEN v ELSE d

\* A destructuring default applies when the property is undefined.
Default(v, d) == IF v.t = "undefined" THEN d ELSE v

\* const { url, text = true, ... } = params: outside any try block, and
\* destructuring null throws a TypeError.
Destructure(params) ==
    IF IsNullish(params)
    THEN [threw |-> TRUE,
          message |-> "Cannot destructure property 'url' of 'params' as it is "
                          \o params.t \o "."]
    ELSE [threw |-> FALSE,
          message |-> "",
          url |-> Get(params, "url"),
          text |-> Default(Get(params, "text"), Bool(TRUE)),
          html |-> Default(Get(params, "html"), Bool(FALSE)),
          author |-> Default(Get(params, "author"), Bool(TRUE)),
          pub_date |-> Default(Get(params, "pub_date"), Bool(TRUE)),
          images |-> Default(Get(params, "images"), Bool(FALSE)),
          quick_mode |-> Default(Get(params, "quick_mode"), Bool(FALSE))]

\* A faulty request: it always goes to the production endpoint.
ToolRequestToDefault(fields, d) ==
    [method |-> "GET",
     baseUrl |-> Str(DefaultBaseUrl),
     params |-> [url |-> d.url,
                 text |-> Flag(d.text),
                 html |-> Flag(d.html),
                 author |-> Flag(d.author),
                 pub_date |-> Flag(d.pub_date),
                 images |-> Flag(d.images),
                 quick_mode |-> Flag(d.quick_mode)],
     headers |-> [ApiKey |-> fields.apiKey],
     timeout |-> TimeoutMs]

\* The arguments of axios.get in _call.
ToolRequest(fields, d) ==
    [method |-> "GET",
     baseUrl |-> fields.baseUrl,
     params |-> [url |-> d.url,
                 text |-> Flag(d.text),
                 html |-> Flag(d.html),
                 author |-> Flag(d.author),
                 pub_date |-> Flag(d.pub_date),
                 images |-> Flag(d.images),
                 quick_mode |-> Flag(d.quick_mode)],
     headers |-> [ApiKey |-> fields.apiKey],
     timeout |-> TimeoutMs]

NoRequest == [baseUrl |-> Undefined]
NoDestructure == [threw |-> FALSE, message |-> ""]

MaxImagesListed == 5

\* The resultParts of _call: the lines pushed so far, or the TypeError that
\* ended the pushing.
NoParts == [threw |-> FALSE, message |-> "", parts |-> <<>>]

\* if (cond) resultParts.push(`${label}${...}`), r being the outcome of the
\* conversion inside the template literal.
PushIf(acc, cond, label, r) ==
    IF acc.threw \/ ~cond THEN acc
    ELSE IF r.threw THEN [threw |-> TRUE, message |-> r.message, parts |-> <<>>]
    ELSE [acc EXCEPT !.parts = Append(@, label \o r.text)]

\* A line of the report for a property that is shown when it is truthy.
PushField(acc, article, k, label) ==
    PushIf(acc, Truthy(Get(article, k)), label, TemplateText(Get(article, k)))

\* A faulty listing: every image URL is listed.
ImagesTextAll(images) == Text(Join(images.a, ", "))

\* article.images.slice(0, 5).join(', ') for a truthy images: the first five
\* of an array of strings; a string has slice and its slice has no join, any
\* other value has no slice.
ImagesText(images) ==
    IF images.t = "array"
    THEN Text(Join(SubSeq(images.a, 1, IF Len(images.a) < MaxImagesListed
                                       THEN Len(images.a) ELSE MaxImagesListed), ", "))
    ELSE IF images.t = "string"
    THEN ThrowText("article.images.slice(...).join is not a function")
    ELSE ThrowText("article.images.slice is not a function")

\* A faulty report: the author line is pushed before the title line.
FormatReportAuthorFirst(d, article) ==
    IF IsNullish(article)
    THEN ThrowText(TypeErrorMessage(article, "title"))
    ELSE LET p1 == PushField(NoParts, article, "author", "Author: ")
             p2 == PushField(p1, article, "title", "Title: ")
             p3 == PushField(p2, article, "pub_date", "Published: ")
             p4 == PushField(p3, article, "site_name", "Site: ")
             p5 == PushField(p4, article, "summary", "\nSummary: ")
             p6 == PushIf(p5, Truthy(d.text) /\ Truthy(Get(article, "text")),
                          "\nContent:\n", TemplateText(Get(article, "text")))
             p7 == PushIf(p6, Truthy(d.html) /\ Truthy(Get(article, "html")),
                          "\nHTML:\n", TemplateText(Get(article, "html")))
             p8 == PushIf(p7, Truthy(d.images) /\ Truthy(Get(article, "images")),
                          "\nImages: ", ImagesText(Get(article, "images")))
         IN IF p8.threw THEN ThrowText(p8.message) ELSE Text(Join(p8.parts, "\n"))

\* The report of _call for the article of a response, or the TypeError that
\* is thrown on the way: reading article.title when the body holds no
\* article, converting a field that has no string form, slicing and joining
\* an images that is truthy and no array.
FormatReport(d, article) ==
    IF IsNullish(article)
    THEN ThrowText(TypeErrorMessage(article, "title"))
    ELSE LET p1 == PushField(NoParts, article, "title", "Title: ")
             p2 == PushField(p1, article, "author", "Author: ")
             p3 == PushField(p2, article, "pub_date", "Published: ")
             p4 == PushField(p3, article, "site_name", "Site: ")
             p5 == PushField(p4, article, "summary", "\nSummary: ")
             p6 == PushIf(p5, Truthy(d.text) /\ Truthy(Get(article, "text")),
                          "\nContent:\n", TemplateText(Get(article, "text")))
             p7 == PushIf(p6, Truthy(d.html) /\ Truthy(Get(article, "html")),
                          "\nHTML:\n", TemplateText(Get(article, "html")))
             p8 == PushIf(p7, Truthy(d.images) /\ Truthy(Get(article, "images")),
                          "\nImages: ", ImagesText(Get(article, "images")))
         IN IF p8.threw THEN ThrowText(p8.message) ELSE Text(Join(p8.parts, "\n"))

\* A faulty catch block: no status is told apart.
CallCatchGeneric(error, url) == Text("Error extracting article: " \o ErrorText(error))

\* The catch block of _call: the string it returns, or the TypeError of the
\* template literal of line 201 when url cannot be converted to a string;
\* nothing catches that one.
CallCatch(error, url) ==
    IF error.isAxiosError /\ error.hasResponse /\ error.status = 401
    THEN Text("Error: Invalid API key. Please check your UJEEBU_API_KEY.")
    ELSE IF error.isAxiosError /\ error.hasResponse /\ error.status = 404
    THEN IF TemplateText(url).threw
         THEN ThrowText(TemplateText(url).message)
         ELSE Text("Error: Article not found at URL: " \o TemplateText(url).text)
    ELSE IF error.isAxiosError /\ error.hasResponse /\ error.status = 408
    THEN Text("Error: Request timeout. Try increasing the timeout or using a premium proxy.")
    ELSE Text("Error extracting article: " \o ErrorText(error))

\* _call after its await: the string it resolves with, or the exception it
\* rejects with.  Everything from the response on is inside the try block;
\* the catch block is not.
CallResult(d, outcome) ==
    IF outcome.kind = "response"
    THEN IF IsNullish(outcome.data)
         THEN CallCatch(PlainError(TypeErrorMessage(outcome.data, "article")), d.url)
         ELSE LET r == FormatReport(d, Get(outcome.data, "article"))
              IN IF r.threw THEN CallCatch(PlainError(r.message), d.url) ELSE r
    ELSE CallCatch(outcome, d.url)

\* A faulty guard: `input === undefined` lets the empty string through.
CallStartUnlessUndefined(fields, input, from) ==
    IF input = Undefined
    THEN [input |-> input, from |-> from, pc |-> "returned", d |-> NoDestructure,
          request |-> NoRequest, outcome |-> NoOutcome,
          result |-> NoInputError, error |-> ""]
    ELSE LET d == Destructure(ParseInput(input))
         IN IF d.threw
            THEN [input |-> input, from |-> from, pc |-> "rejected", d |-> d,
                  request |-> NoRequest, outcome |-> NoOutcome,
                  result |-> "", error |-> d.message]
            ELSE [input |-> input, from |-> from, pc |-> "awaiting", d |-> d,
                  request |-> ToolRequest(fields, d), outcome |-> NoOutcome,
                  result |-> "", error |-> ""]

\* _call up to its await: it returns at once for a falsy input, throws when
\* the destructuring does, and otherwise issues its request.  `from` is the
\* value the caller made the input of (the object it serialized, or the input
\* itself); the code never reads it.
CallStart(fields, input, from) ==
    IF ~Truthy(input)
    THEN [input |-> input, from |-> from, pc |-> "returned", d |-> NoDestructure,
          request |-> NoRequest, outcome |-> NoOutcome,
          result |-> NoInputError, error |-> ""]
    ELSE LET d == Destructure(ParseInput(input))
         IN IF d.threw
            THEN [input |-> input, from |-> from, pc |-> "rejected", d |-> d,
                  request |-> NoRequest, outcome |-> NoOutcome,
                  result |-> "", error |-> d.message]
            ELSE [input |-> input, from |-> from, pc |-> "awaiting", d |-> d,
                  request |-> ToolRequest(fields, d), outcome |-> NoOutcome,
                  result |-> "", error |-> ""]

-----------------------------------------------------------------------------
(* The actions.                                                            *)

\* The process environment changes between the construction of an instance
\* and its use (the test suites set and delete the variable).
SetEnv(v) ==
    /\ ctor # NoCtor
    /\ loads = <<>>
    /\ calls = <<>>
    /\ env # v
    /\ env' = v
    /\ UNCHANGED <<ctor, loader, tool, thrown, loads, calls, console, microtasks>>

\* new UjeebuLoader(params)
NewUjeebuLoader(params) ==
    /\ ctor = NoCtor
    /\ ctor' = [component |-> "UjeebuLoader", params |-> params, env |-> env]
    /\ IF ApiKeyMissing(LoaderFields(params, env))
       THEN /\ thrown' = Append(thrown, ApiKeyErrorMessage)
            /\ loader' = loader
       ELSE /\ loader' = LoaderFields(params, env)
            /\ thrown' = thrown
    /\ UNCHANGED <<env, tool, loads, calls, console, microtasks>>

\* new UjeebuExtractTool(params)
NewUjeebuExtractTool(params) ==
    /\ ctor = NoCtor
    /\ ctor' = [component |-> "UjeebuExtractTool", params |-> params, env |-> env]
    /\ IF ApiKeyMissing(ToolFields(params, env))
       THEN /\ thrown' = Append(thrown, ApiKeyErrorMessage)
            /\ tool' = tool
       ELSE /\ tool' = ToolFields(params, env)
            /\ thrown' = thrown
    /\ UNCHANGED <<env, loader, loads, calls, console, microtasks>>

\* The most calls made on one instance.
MaxCalls == 2

\* loader.load(), up to its await.
Load ==
    /\ loader # NoInstance
    /\ Len(loads) < MaxCalls
    /\ loads' = Append(loads, [pc |-> "awaiting", tasks |-> IssuedTasks(loader),
                               result |-> <<>>, error |-> ""])
    /\ UNCHANGED <<env, ctor, loader, tool, thrown, calls, console, microtasks>>

\* The request for the i-th URL of load() call c settles with `outcome`, and
\* extractArticle runs from its await to its end: the promise it returned
\* settles, which queues the .then callback.  `at` is the reading of the
\* observer's clock at that moment (0 when completions are not timed); the
\* code never reads it.
Settle(c, i, outcome, at) ==
    /\ c \in DOMAIN loads
    /\ i \in DOMAIN loads[c].tasks
    /\ loads[c].tasks[i].extracted.state = "pending"
    /\ LET task == loads[c].tasks[i]
           settled == ExtractArticle(task.url, outcome)
       IN /\ loads' = [loads EXCEPT ![c].tasks[i] =
                          [task EXCEPT !.extracted = [state |-> settled.state,
                                                      value |-> settled.value],
                                       !.outcome = outcome,
                                       !.at = at]]
          /\ console' = console \o settled.log
    /\ microtasks' = Append(microtasks, [c |-> c, i |-> i])
    /\ UNCHANGED <<env, ctor, loader, tool, thrown, calls>>

\* The event loop runs the .then callback at the head of the queue: the
\* promise Promise.allSettled was given for that URL settles.
ThenCallback ==
    /\ microtasks # <<>>
    /\ LET c == Head(microtasks).c
           i == Head(microtasks).i
           task == loads[c].tasks[i]
           pair == ThenPair(task.url, task.extracted)
       IN loads' = [loads EXCEPT ![c].tasks[i] =
                       [task EXCEPT !.state = pair.state, !.value = pair.value]]
    /\ microtasks' = Tail(microtasks)
    /\ UNCHANGED <<env, ctor, loader, tool, thrown, calls, console>>

\* A faulty load(): the results are kept in a field of the instance, which
\* the first call made on it fills.
LoadReturnShared(c) ==
    /\ c \in DOMAIN loads
    /\ loads[c].pc = "awaiting"
    /\ AllSettled(loads[c].tasks)
    /\ LET r == CollectDocuments(loader, loads[1].tasks, 1, <<>>)
       IN loads' = [loads EXCEPT ![c].pc = IF r.threw THEN "rejected" ELSE "returned",
                                 ![c].result = r.docs,
                                 ![c].error = r.message]
    /\ UNCHANGED <<env, ctor, loader, tool, thrown, calls, console, microtasks>>

\* load() call c after its await: the loop over the results, and the return.
LoadReturn(c) ==
    /\ c \in DOMAIN loads
    /\ loads[c].pc = "awaiting"
    /\ AllSettled(loads[c].tasks)
    /\ LET r == CollectDocuments(loader, loads[c].tasks, 1, <<>>)
       IN loads' = [loads EXCEPT ![c].pc = IF r.threw THEN "rejected" ELSE "returned",
                                 ![c].result = r.docs,
                                 ![c].error = r.message]
    /\ UNCHANGED <<env, ctor, loader, tool, thrown, calls, console, microtasks>>

\* tool._call(input), up to its await.
Call(input, from) ==
    /\ tool # NoInstance
    /\ Len(calls) < MaxCalls
    /\ calls' = Append(calls, CallStart(tool, input, from))
    /\ UNCHANGED <<env, ctor, loader, tool, thrown, loads, console, microtasks>>

\* The request of _call call c settles with `outcome`, and _call returns, or
\* throws from its catch block.
CallSettle(c, outcome) ==
    /\ c \in DOMAIN calls
    /\ calls[c].pc = "awaiting"
    /\ LET r == CallResult(calls[c].d, outcome)
       IN calls' = [calls EXCEPT ![c].pc = IF r.threw THEN "rejected" ELSE "returned",
                                 ![c].outcome = outcome,
                                 ![c].result = r.text,
                                 ![c].error = r.message]
    /\ UNCHANGED <<env, ctor, loader, tool, thrown, loads, console, microtasks>>

-----------------------------------------------------------------------------
(* The inputs the model draws.                                             *)

\* The longest URL list given to a loader.
MaxUrls == 3

Url1 == "https://example.com/article1"
Url2 == "https://example.com/article2"
Urls == {Url1, Url2}

\* Every list of at most MaxUrls URLs, duplicates included.
UrlLists == UNION {[1..n -> Urls] : n \in 0..MaxUrls}

ParamApiKey == "test_api_key_12345"
EnvApiKey == "env_api_key_67890"
CustomBaseUrl == "https://custom-api.ujeebu.com/extract"

FlagNames == {"text", "html", "author", "pub_date", "images", "quick_mode"}
FlagValues == {Undefined, Bool(TRUE), Bool(FALSE)}

\* No flag given: every flag takes its default.
NoFlags == [f \in FlagNames |-> Undefined]
\* Every flag given the opposite of its default.
InvertedFlags ==
    [f \in FlagNames |-> Bool(f \in {"html", "images", "quick_mode"})]

\* The UjeebuLoaderParams object with these properties.
LoaderParams(urls, apiKey, flags, baseUrl) ==
    [urls |-> urls,
     apiKey |-> apiKey,
     extractText |-> flags["text"],
     extractHtml |-> flags["html"],
     extractAuthor |-> flags["author"],
     extractPubDate |-> flags["pub_date"],
     extractImages |-> flags["images"],
     quickMode |-> flags["quick_mode"],
     baseUrl |-> baseUrl]

\* The UjeebuExtractParams object with these properties.
ToolParams(apiKey, baseUrl) == [t |-> "object", apiKey |-> apiKey, baseUrl |-> baseUrl]

\* The UjeebuExtractInput object with this url and these flags.
ToolInputObject(url, flags) ==
    Obj(<<Member("url", url),
          Member("text", flags["text"]),
          Member("html", flags["html"]),
          Member("author", flags["author"]),
          Member("pub_date", flags["pub_date"]),
          Member("images", flags["images"]),
          Member("quick_mode", flags["quick_mode"])>>)

\* The article of the test suites' mocked response.
TestArticle ==
    Obj(<<Member("title", Str("Test Article Title")),
          Member("text", Str("This is the article text content.")),
          Member("html", Str("<p>This is the article HTML content.</p>")),
          Member("author", Str("John Doe")),
          Member("pub_date", Str("2024-01-01 12:00:00")),
          Member("url", Str("https://example.com/article")),
          Member("canonical_url", Str("https://example.com/article")),
          Member("site_name", Str("Example Site")),
          Member("summary", Str("Article summary")),
          Member("language", Str("en")),
          Member("image", Str("https://example.com/image.jpg")),
          Member("images", Arr(<<"https://example.com/image1.jpg",
                                 "https://example.com/image2.jpg">>))>>)

\* An article whose text and HTML are lists of paragraphs, not strings.
ParagraphsArticle ==
    Obj(<<Member("text", Arr(<<"First paragraph.", "Second paragraph.">>)),
          Member("html", Arr(<<"<p>First paragraph.</p>">>))>>)

\* An article whose text is an object with a property named toString: JSON
\* can carry it, and no string can be made of it.
UnprintableArticle ==
    Obj(<<Member("title", Str("Test Article Title")),
          Member("text", Obj(<<Member("toString", Num(1))>>))>>)

\* A 200 response whose body is { article }.
ArticleResponse(article) == Response(Obj(<<Member("article", article)>>))

\* How a request of load() may settle: an article, an article without any
\* field, an article of paragraph lists, an article whose text has no string
\* form, an article that is no object, a body without article, a null body,
\* a 404, a local timeout.
LoaderOutcomes ==
    {ArticleResponse(TestArticle),
     ArticleResponse(Obj(<<>>)),
     ArticleResponse(ParagraphsArticle),
     ArticleResponse(UnprintableArticle),
     ArticleResponse(Str("unavailable")),
     Response(Obj(<<>>)),
     Response(Null),
     HttpError(404),
     NetworkError("timeout of 60000ms exceeded")}

\* How the request of _call may settle.
ToolOutcomes ==
    {ArticleResponse(TestArticle),
     ArticleResponse(Obj(<<>>)),
     ArticleResponse(Null),
     ArticleResponse(Obj(<<Member("images", Str("https://example.com/image1.jpg"))>>)),
     ArticleResponse(ParagraphsArticle),
     ArticleResponse(UnprintableArticle),
     ArticleResponse(Str("unavailable")),
     Response(Obj(<<>>)),
     Response(Null),
     Response(Str("<html></html>")),
     HttpError(401),
     HttpError(404),
     HttpError(408),
     HttpError(500),
     MockedHttpError(401),
     MockedHttpError(404),
     MockedHttpError(408),
     NetworkError("timeout of 60000ms exceeded"),
     NetworkError("getaddrinfo ENOTFOUND api.ujeebu.com"),
     NetworkError("read ECONNRESET"),
     PlainError("Network error")}

\* What an agent may pass to _call: nothing, a bare URL, any other text (a
\* blank, an object literal that is no JSON, an object whose url ends in a
\* raw form feed), and JSON texts of every kind of value, an object whose
\* url is itself an object among them.
ToolInputs ==
    {Undefined,
     Str(""),
     Str(Url1),
     Str("not a url"),
     Str(" "),
     Str("{url: " \o Url1 \o "}"),
     Str("{\"url\":\"" \o Url1 \o "\f\"}"),
     Str("null"),
     Str("true"),
     Str("123"),
     Str("\"" \o Url1 \o "\""),
     Str("{}"),
     Str("{\"url\":{\"toString\":1}}"),
     Str(JSONStringify(ToolInputObject(Str(Url1), NoFlags))),
     Str(JSONStringify(ToolInputObject(Str(Url1), InvertedFlags))),
     Str(JSONStringify(ToolInputObject(Undefined, InvertedFlags)))}

-----------------------------------------------------------------------------
(* Spec: one instance built with a key, every URL list, every way its      *)
(* requests settle and interleave.                                         *)

Init ==
    /\ env = Undefined
    /\ ctor = NoCtor
    /\ loader = NoInstance
    /\ tool = NoInstance
    /\ thrown = <<>>
    /\ loads = <<>>
    /\ calls = <<>>
    /\ console = <<>>
    /\ microtasks = <<>>

SpecLoaderParams ==
    {LoaderParams(urls, Str(ParamApiKey), flags, Undefined) :
        urls \in UrlLists, flags \in {NoFlags, InvertedFlags}}
    \cup {LoaderParams(<<Url1>>, Undefined, NoFlags, Undefined)}

SpecToolParams == {Undefined, ToolParams(Str(ParamApiKey), Undefined)}

Next ==
    \/ \E params \in SpecLoaderParams : NewUjeebuLoader(params)
    \/ \E params \in SpecToolParams : NewUjeebuExtractTool(params)
    \/ (loads = <<>> /\ Load)
    \/ \E c \in DOMAIN loads : \E i \in DOMAIN loads[c].tasks :
          \E outcome \in LoaderOutcomes : Settle(c, i, outcome, 0)
    \/ ThenCallback
    \/ \E c \in DOMAIN loads : LoadReturn(c)
    \/ \E input \in ToolInputs : (calls = <<>> /\ Call(input, input))
    \/ \E c \in DOMAIN calls : \E outcome \in ToolOutcomes : CallSettle(c, outcome)

Spec == Init /\ [][Next]_vars

-----------------------------------------------------------------------------
(* Claims about load() and _call(), under Spec.                            *)

\* The request was answered with a body whose article the loader keeps.
AnsweredWithArticle(outcome) ==
    /\ outcome.kind = "response"
    /\ outcome.data.t = "object"
    /\ Truthy(Get(outcome.data, "article"))

\* The entries of load() call c whose request was answered with one.
AnsweredAt(c) ==
    {i \in DOMAIN loads[c].tasks : AnsweredWithArticle(loads[c].tasks[i].outcome)}

\* A request succeeds upstream when it is answered 200 with a body that
\* contains an article object; every other outcome is a failure.
SucceededUpstream(outcome) ==
    /\ outcome.kind = "response"
    /\ outcome.data.t = "object"
    /\ Get(outcome.data, "article").t = "object"

\* The entries of load() call c whose request succeeded upstream.
SucceededAt(c) ==
    {i \in DOMAIN loads[c].tasks : SucceededUpstream(loads[c].tasks[i].outcome)}

\* The documents of load() call c whose metadata.source is url.
DocumentsFor(c, url) ==
    {j \in DOMAIN loads[c].result : loads[c].result[j].metadata["source"] = Str(url)}

\* C1 (as claimed): when k of the N requests of a load() succeed upstream
\* and N-k fail, load() returns exactly k documents, wherever in the list the
\* failures are.
C1_ExactlyKDocuments ==
    \A c \in DOMAIN loads :
        loads[c].pc = "returned" =>
            Len(loads[c].result) = Cardinality(SucceededAt(c))

C3_LoadNeverRejects ==
    \A c \in DOMAIN loads :
        /\ loads[c].pc # "rejected"
        /\ \A i \in DOMAIN loads[c].tasks : loads[c].tasks[i].state # "rejected"
        /\ \A j \in DOMAIN loads[c].result :
              "source" \in DOMAIN loads[c].result[j].metadata

\* C4 (as claimed): _call never throws, whatever its input and whatever the
\* outcome of its request.
C4_CallNeverThrows ==
    \A c \in DOMAIN calls : calls[c].pc # "rejected"

\* C5: load() has returned only if every request it issued has settled, and
\* until it returns no document has been delivered.
C5_ReturnsAfterAllSettled ==
    \A c \in DOMAIN loads :
        /\ loads[c].pc = "returned" =>
              \A i \in DOMAIN loads[c].tasks :
                  /\ loads[c].tasks[i].state # "pending"
                  /\ loads[c].tasks[i].outcome # NoOutcome
        /\ loads[c].pc = "awaiting" => loads[c].result = <<>>

\* A load() of three URLs returned documents for some and not for others.
C5_Witness ==
    \E c \in DOMAIN loads :
        /\ loads[c].pc = "returned"
        /\ Len(loads[c].tasks) = 3
        /\ Len(loads[c].result) \in {1, 2}

\* C6: from the moment load() waits, the request of every entry of the URL
\* list has been issued, whether or not any earlier one has completed.
C6_AllRequestsIssuedAtOnce ==
    \A c \in DOMAIN loads :
        /\ Len(loads[c].tasks) = Len(loader.urls)
        /\ \A i \in DOMAIN loads[c].tasks :
              loads[c].tasks[i].request.params.url = Str(loader.urls[i])

\* The third request has completed while the first two are still in flight.
C6_Witness ==
    \E c \in DOMAIN loads :
        /\ loads[c].pc = "awaiting"
        /\ Len(loads[c].tasks) = 3
        /\ loads[c].tasks[1].state = "pending"
        /\ loads[c].tasks[2].state = "pending"
        /\ loads[c].tasks[3].state # "pending"

\* C7 (as claimed): every entry of the URL list that has no document in the
\* result has a console.error entry naming its URL.
C7_EveryOmissionReported ==
    \A c \in DOMAIN loads :
        loads[c].pc = "returned" =>
            \A i \in DOMAIN loads[c].tasks :
                DocumentsFor(c, loads[c].tasks[i].url) = {} =>
                    \E e \in DOMAIN console :
                        console[e][1] = "Error extracting article from "
                                            \o loads[c].tasks[i].url \o ":"

-----------------------------------------------------------------------------
(* SpecConfig: every way to give (or not) the API key, the base URL and    *)
(* the six flags, with the environment changing after construction.        *)

EnvValues == {Undefined, Str(""), Str(EnvApiKey)}
KeyValues == {Undefined, Str(""), Str(ParamApiKey)}
BaseUrlValues == {Undefined, Str(CustomBaseUrl)}
AllFlags == [FlagNames -> FlagValues]

ConfigUrls == <<Url1, Url2>>

ConfigLoaderParams ==
    {LoaderParams(ConfigUrls, key, NoFlags, baseUrl) :
        key \in KeyValues, baseUrl \in BaseUrlValues}
    \cup {LoaderParams(ConfigUrls, Str(ParamApiKey), flags, Undefined) :
             flags \in AllFlags}

ConfigToolParams ==
    {Undefined}
    \cup {ToolParams(key, baseUrl) : key \in KeyValues, baseUrl \in BaseUrlValues}

ConfigToolInputObjects == {ToolInputObject(Str(Url1), flags) : flags \in AllFlags}

\* What is sent does not depend on the answer: every request is answered.
ConfigOutcomes == {ArticleResponse(TestArticle)}

InitConfig ==
    /\ env \in EnvValues
    /\ ctor = NoCtor
    /\ loader = NoInstance
    /\ tool = NoInstance
    /\ thrown = <<>>
    /\ loads = <<>>
    /\ calls = <<>>
    /\ console = <<>>
    /\ microtasks = <<>>

NextConfig ==
    \/ \E v \in EnvValues : SetEnv(v)
    \/ \E params \in ConfigLoaderParams : NewUjeebuLoader(params)
    \/ \E params \in ConfigToolParams : NewUjeebuExtractTool(params)
    \/ (loads = <<>> /\ Load)
    \/ \E c \in DOMAIN loads : \E i \in DOMAIN loads[c].tasks :
          \E outcome \in ConfigOutcomes : Settle(c, i, outcome, 0)
    \/ ThenCallback
    \/ \E c \in DOMAIN loads : LoadReturn(c)
    \/ (calls = <<>> /\ Call(Str(Url1), Str(Url1)))
    \/ \E object \in ConfigToolInputObjects :
          (calls = <<>> /\ Call(Str(JSONStringify(object)), object))
    \/ \E c \in DOMAIN calls : \E outcome \in ConfigOutcomes : CallSettle(c, outcome)

SpecConfig == InitConfig /\ [][NextConfig]_vars

-----------------------------------------------------------------------------
(* Claims about the configuration, under SpecConfig.                       *)

\* sub occurs in s.
Contains(s, sub) ==
    \E i \in 1..(Len(s) - Len(sub) + 1) : SubSeq(s, i, i + Len(sub) - 1) = sub

AbsentOrEmpty(v) == v = Undefined \/ v = Str("")

\* The apiKey parameter the constructor was given.
CtorApiKey ==
    IF ctor.component = "UjeebuExtractTool" /\ ctor.params = Undefined
    THEN Undefined
    ELSE ctor.params.apiKey

\* C8: constructing either component with the apiKey parameter absent or
\* empty while UJEEBU_API_KEY is absent or empty throws an error whose
\* message contains 'API key must be provided'; there is no instance, and no
\* load(), _call() or request ever follows.
C8_MissingKeyFailsConstruction ==
    (ctor # NoCtor /\ AbsentOrEmpty(CtorApiKey) /\ AbsentOrEmpty(ctor.env)) =>
        /\ thrown # <<>>
        /\ \A e \in DOMAIN thrown : Contains(thrown[e], "API key must be provided")
        /\ loader = NoInstance
        /\ tool = NoInstance
        /\ loads = <<>>
        /\ calls = <<>>

\* A loader was constructed with an empty apiKey while the variable was
\* empty; the variable has been set since, and there is still no instance.
C8_Witness ==
    /\ ctor.component = "UjeebuLoader"
    /\ ctor.params.apiKey = Str("")
    /\ ctor.env = Str("")
    /\ env = Str(EnvApiKey)
    /\ thrown # <<>>
    /\ loader = NoInstance

\* The key the constructor call resolves to: the parameter when it is
\* non-empty, otherwise the variable as it was at construction.
ExpectedApiKey == IF ~AbsentOrEmpty(CtorApiKey) THEN CtorApiKey ELSE ctor.env

\* C9: the ApiKey header of every request is the key resolved at
\* construction: the apiKey parameter when non-empty, otherwise the value
\* UJEEBU_API_KEY had at construction; the parameter wins over the variable.
C9_HeaderCarriesResolvedKey ==
    /\ \A c \in DOMAIN loads : \A i \in DOMAIN loads[c].tasks :
          loads[c].tasks[i].request.headers.ApiKey = ExpectedApiKey
    /\ \A c \in DOMAIN calls :
          calls[c].request # NoRequest =>
              calls[c].request.headers.ApiKey = ExpectedApiKey

\* A loader built without apiKey took the variable's value; the variable was
\* deleted before load(), and the requests still carry that value.
C9_Witness ==
    \E c \in DOMAIN loads :
        /\ ctor.params.apiKey = Undefined
        /\ ctor.env = Str(EnvApiKey)
        /\ env = Undefined
        /\ Len(loads[c].tasks) = 2
        /\ \A i \in DOMAIN loads[c].tasks :
              loads[c].tasks[i].request.headers.ApiKey = Str(EnvApiKey)

\* The constructor option of UjeebuLoader behind each query parameter.
LoaderFlagParam ==
    [text |-> "extractText", html |-> "extractHtml", author |-> "extractAuthor",
     pub_date |-> "extractPubDate", images |-> "extractImages",
     quick_mode |-> "quickMode"]

\* The query parameter sent for a flag given as a boolean.
Encodes(given, sent) ==
    /\ sent \in {0, 1}
    /\ given = Bool(TRUE) => sent = 1
    /\ given = Bool(FALSE) => sent = 0

\* C10: for every combination of the six flags, given to the loader as
\* constructor options or to the tool as fields of its input, each query
\* parameter of every request is 1 when its flag is true and 0 when false.
C10_FlagsEncodedAsZeroOne ==
    /\ \A c \in DOMAIN loads : \A i \in DOMAIN loads[c].tasks : \A f \in FlagNames :
          Encodes(ctor.params[LoaderFlagParam[f]], loads[c].tasks[i].request.params[f])
    /\ \A c \in DOMAIN calls :
          (calls[c].request # NoRequest /\ calls[c].from.t = "object") =>
              \A f \in FlagNames :
                  Encodes(Get(calls[c].from, f), calls[c].request.params[f])

\* The tool was given every flag as the opposite of its default, and its
\* request carries text=0, html=1, author=0, pub_date=0, images=1,
\* quick_mode=1.
C10_Witness ==
    \E c \in DOMAIN calls :
        /\ calls[c].from = ToolInputObject(Str(Url1), InvertedFlags)
        /\ calls[c].request # NoRequest
        /\ calls[c].request.params =
              [url |-> Str(Url1), text |-> 0, html |-> 1, author |-> 0,
               pub_date |-> 0, images |-> 1, quick_mode |-> 1]

-----------------------------------------------------------------------------
(* Claims about the input of _call and its error strings, under Spec.      *)

\* A non-empty text that JSON.parse refuses.
NotJson(input) == input.t = "string" /\ input.s # "" /\ ~JSONParse(input.s).ok

\* C11: for every non-empty input that does not parse (JSON.parse refuses
\* it), _call issues a request whose url parameter is exactly the input and
\* whose flags are the defaults text=1, html=0, author=1, pub_date=1,
\* images=0, quick_mode=0; it does not throw, and what it returns reports no
\* parse error.
C11_BareUrlFallback ==
    \A c \in DOMAIN calls :
        NotJson(calls[c].input) =>
            /\ calls[c].pc # "rejected"
            /\ calls[c].request # NoRequest
            /\ calls[c].request.params =
                  [url |-> calls[c].input, text |-> 1, html |-> 0, author |-> 1,
                   pub_date |-> 1, images |-> 0, quick_mode |-> 0]
            /\ ~Contains(calls[c].result, "JSON")
            /\ ~Contains(calls[c].result, "SyntaxError")
            /\ ~Contains(calls[c].result, "Unexpected token")

\* _call was given an object literal that is no JSON; the request carried the
\* whole text as url, and the article that came back was reported.
C11_Witness ==
    \E c \in DOMAIN calls :
        /\ calls[c].input = Str("{url: " \o Url1 \o "}")
        /\ calls[c].pc = "returned"
        /\ calls[c].request.params.url = calls[c].input
        /\ calls[c].outcome = ArticleResponse(TestArticle)
        /\ Contains(calls[c].result, "Title: Test Article Title")

-----------------------------------------------------------------------------
(* A claim about the defaults of the flags, under SpecConfig.              *)

\* The documented default of each flag.
FlagDefault ==
    [text |-> TRUE, html |-> FALSE, author |-> TRUE, pub_date |-> TRUE,
     images |-> FALSE, quick_mode |-> FALSE]

\* The value a flag has when it was given as `given`.
Effective(given, f) == IF given = Undefined THEN Bool(FlagDefault[f]) ELSE given

\* C12: each flag is defaulted on its own: whatever the other five are, a
\* flag left out of the loader's constructor options or of the tool's JSON
\* input has its default (text, author, pub_date true; html, images,
\* quick_mode false), a flag given as true or false has the value given, and
\* that value is what the request sends.
C12_FlagsDefaultIndependently ==
    /\ loader # NoInstance =>
          \A f \in FlagNames :
              loader[LoaderFlagParam[f]] = Effective(ctor.params[LoaderFlagParam[f]], f)
    /\ \A c \in DOMAIN loads : \A i \in DOMAIN loads[c].tasks : \A f \in FlagNames :
          loads[c].tasks[i].request.params[f] =
              IF Effective(ctor.params[LoaderFlagParam[f]], f) = Bool(TRUE) THEN 1 ELSE 0
    /\ \A c \in DOMAIN calls :
          (calls[c].request # NoRequest /\ calls[c].from.t = "object") =>
              \A f \in FlagNames :
                  /\ calls[c].d[f] = Effective(Get(calls[c].from, f), f)
                  /\ calls[c].request.params[f] =
                        IF Effective(Get(calls[c].from, f), f) = Bool(TRUE) THEN 1 ELSE 0

\* The tool was given text: false and html: true and no other flag: the
\* request carries text=0 and html=1 and the defaults of the other four.
C12_Witness ==
    \E c \in DOMAIN calls :
        /\ calls[c].from =
              ToolInputObject(Str(Url1),
                  [f \in FlagNames |-> CASE f = "text" -> Bool(FALSE)
                                         [] f = "html" -> Bool(TRUE)
                                         [] OTHER -> Undefined])
        /\ calls[c].input = Str("{\"url\":\"" \o Url1 \o "\",\"text\":false,\"html\":true}")
        /\ calls[c].request # NoRequest
        /\ calls[c].request.params =
              [url |-> Str(Url1), text |-> 0, html |-> 1, author |-> 1,
               pub_date |-> 1, images |-> 0, quick_mode |-> 0]

-----------------------------------------------------------------------------
(* Claims about the error strings of _call, under Spec.                    *)

\* The HTTP status the request failed with, 0 when no response came.
FailureStatus(outcome) == IF outcome.hasResponse THEN outcome.status ELSE 0

C14_NoInputIsReported ==
    \A c \in DOMAIN calls :
        calls[c].input \in {Undefined, Str("")} =>
            /\ calls[c].pc = "returned"
            /\ Contains(calls[c].result, "No URL provided")
            /\ calls[c].request = NoRequest
            /\ calls[c].outcome = NoOutcome

\* _call was given the empty string and returned the error string.
C14_Witness ==
    \E c \in DOMAIN calls :
        /\ calls[c].input = Str("")
        /\ calls[c].pc = "returned"
        /\ calls[c].result = NoInputError

-----------------------------------------------------------------------------
(* SpecContent: one URL, every pair of flags that decides what is shown,   *)
(* and articles in which every field is present, absent or empty.          *)

\* The longest list of image URLs an article carries.
MaxImages == 6

\* The fields the report of _call shows, in the order the code tests them.
ReportFields ==
    <<"title", "author", "pub_date", "site_name", "summary", "text", "html", "images">>

ReportFieldSet == {ReportFields[i] : i \in DOMAIN ReportFields}

\* The fields of the mocked article.
ArticleFields == {TestArticle.m[i].k : i \in DOMAIN TestArticle.m}

\* The article with only the fields of S, in their order.
Restrict(article, S) ==
    LET Keep(m) == m.k \in S IN Obj(SelectSeq(article.m, Keep))

\* The article with field f empty: '' for a string, [] for a list.
Emptied(article, f) ==
    Obj([i \in DOMAIN article.m |->
            IF article.m[i].k # f THEN article.m[i]
            ELSE Member(f, IF article.m[i].v.t = "array" THEN Arr(<<>>) ELSE Str(""))])

ImageUrl(i) == "https://example.com/image" \o ToString(i) \o ".jpg"

\* The lists of 0..MaxImages distinct image URLs, ascending and descending.
ImageLists ==
    UNION {{[i \in 1..n |-> ImageUrl(i)], [i \in 1..n |-> ImageUrl(n + 1 - i)]} :
              n \in 0..MaxImages}

ContentArticles ==
    {Restrict(TestArticle, S) : S \in SUBSET ReportFieldSet}
    \cup {Restrict(TestArticle, ArticleFields \ {f}) : f \in ArticleFields}
    \cup {Restrict(TestArticle, {f}) : f \in ArticleFields}
    \cup {Emptied(TestArticle, f) : f \in ArticleFields}
    \cup {Obj(<<Member("images", Arr(l))>>) : l \in ImageLists}
    \cup {TestArticle}

ContentOutcomes == {ArticleResponse(article) : article \in ContentArticles}

\* The flags that decide what a document or a report holds, each on or off.
ContentLoaderFlags ==
    {flags \in [FlagNames -> FlagValues] :
        /\ flags["quick_mode"] = Undefined
        /\ \A f \in FlagNames \ {"quick_mode"} : flags[f] # Undefined}
    \cup {NoFlags}

ContentToolFlags ==
    {flags \in [FlagNames -> FlagValues] :
        /\ \A f \in {"author", "pub_date", "quick_mode"} : flags[f] = Undefined
        /\ \A f \in {"text", "html", "images"} : flags[f] # Undefined}
    \cup {NoFlags}

ContentLoaderParams ==
    {LoaderParams(<<Url1>>, Str(ParamApiKey), flags, Undefined) :
        flags \in ContentLoaderFlags}

ContentToolInputObjects == {ToolInputObject(Str(Url1), flags) : flags \in ContentToolFlags}

NextContent ==
    \/ \E params \in ContentLoaderParams : NewUjeebuLoader(params)
    \/ NewUjeebuExtractTool(ToolParams(Str(ParamApiKey), Undefined))
    \/ (loads = <<>> /\ Load)
    \/ \E c \in DOMAIN loads : \E i \in DOMAIN loads[c].tasks :
          \E outcome \in ContentOutcomes : Settle(c, i, outcome, 0)
    \/ ThenCallback
    \/ \E c \in DOMAIN loads : LoadReturn(c)
    \/ \E object \in ContentToolInputObjects :
          (calls = <<>> /\ Call(Str(JSONStringify(object)), object))
    \/ \E c \in DOMAIN calls : \E outcome \in ContentOutcomes : CallSettle(c, outcome)

SpecContent == Init /\ [][NextContent]_vars

-----------------------------------------------------------------------------
(* Claims about the report of _call, under SpecContent.                    *)

\* The position of the first occurrence of sub in s, 0 when there is none.
IndexOf(s, sub) ==
    LET hits == {i \in 1..(Len(s) - Len(sub) + 1) : SubSeq(s, i, i + Len(sub) - 1) = sub}
    IN IF hits = {} THEN 0 ELSE CHOOSE i \in hits : \A j \in hits : i <= j

\* What opens each section of the report, in the order of ReportFields.
SectionLabels ==
    <<"Title: ", "Author: ", "Published: ", "Site: ", "Summary: ", "Content:\n",
      "HTML:\n", "Images: ">>

\* _call call c returned the report of an article.
Reported(c) ==
    /\ calls[c].pc = "returned"
    /\ calls[c].outcome.kind = "response"
    /\ calls[c].outcome.data.t = "object"
    /\ Get(calls[c].outcome.data, "article").t = "object"

\* The article _call call c was answered with.
ReportedArticle(c) == Get(calls[c].outcome.data, "article")

\* C15: in every report, whatever sections it has, a section that comes
\* earlier in the order Title, Author, Published, Site, Summary, Content,
\* HTML, Images starts before every section that comes later in it.
C15_SectionsInFixedOrder ==
    \A c \in DOMAIN calls :
        Reported(c) =>
            \A a, b \in DOMAIN SectionLabels :
                (/\ a < b
                 /\ IndexOf(calls[c].result, SectionLabels[a]) > 0
                 /\ IndexOf(calls[c].result, SectionLabels[b]) > 0)
                    => IndexOf(calls[c].result, SectionLabels[a])
                           < IndexOf(calls[c].result, SectionLabels[b])

\* An article with author, summary and images only was reported with the
\* images flag set: the three sections follow each other in that order.
C15_Witness ==
    \E c \in DOMAIN calls :
        /\ Reported(c)
        /\ ReportedArticle(c) = Restrict(TestArticle, {"author", "summary", "images"})
        /\ calls[c].result =
              "Author: John Doe\n\nSummary: Article summary\n\nImages: "
                  \o "https://example.com/image1.jpg, https://example.com/image2.jpg"

\* A field with something in it: a string that is not '', a list that is
\* not [].
NonEmpty(v) == (v.t = "string" /\ v.s # "") \/ (v.t = "array" /\ v.a # <<>>)

\* The report has the section of the n-th report field.
HasSection(c, n) == IndexOf(calls[c].result, SectionLabels[n]) > 0

\* C16 (as claimed): a Title, Author, Published, Site or Summary section is
\* in the report exactly when the article's field is non-empty, and a
\* Content, HTML or Images section exactly when its flag is set and the
\* article's field is non-empty; an empty image list gives no Images line.
C16_EmptyFieldsOmitted ==
    \A c \in DOMAIN calls :
        Reported(c) =>
            /\ \A n \in 1..5 :
                  HasSection(c, n) <=> NonEmpty(Get(ReportedArticle(c), ReportFields[n]))
            /\ \A n \in 6..8 :
                  HasSection(c, n) <=>
                      /\ calls[c].d[ReportFields[n]] = Bool(TRUE)
                      /\ NonEmpty(Get(ReportedArticle(c), ReportFields[n]))

\* The text of the report after the label of its Images section.
ListedImages(c) ==
    SubSeq(calls[c].result,
           IndexOf(calls[c].result, "Images: ") + Len("Images: "),
           Len(calls[c].result))

\* The first k entries of a list of URLs, separated by ', '.
RECURSIVE FirstListed(_, _, _)
FirstListed(urls, i, k) ==
    IF i > k THEN ""
    ELSE urls[i] \o (IF i < k THEN ", " ELSE "") \o FirstListed(urls, i + 1, k)

\* C17: the Images line of a report lists the first min(5, n) of the n
\* image URLs of the article, in the article's order, and nothing else.
C17_AtMostFiveImagesListed ==
    \A c \in DOMAIN calls :
        (Reported(c) /\ HasSection(c, 8)) =>
            LET urls == Get(ReportedArticle(c), "images").a
                k == IF Len(urls) < 5 THEN Len(urls) ELSE 5
            IN ListedImages(c) = FirstListed(urls, 1, k)

\* An article with more than five image URLs, in descending order, was
\* reported: the line lists the first five and leaves out the others.
C17_Witness ==
    \E c \in DOMAIN calls :
        /\ Reported(c)
        /\ HasSection(c, 8)
        /\ Len(Get(ReportedArticle(c), "images").a) > 5
        /\ Get(ReportedArticle(c), "images").a[1] = ImageUrl(MaxImages)
        /\ Contains(calls[c].result, ImageUrl(MaxImages - 4))
        /\ ~Contains(calls[c].result, ImageUrl(MaxImages - 5))

-----------------------------------------------------------------------------
(* Claims about the documents of load(), under SpecContent.                *)

\* The entry of the URL list the j-th document of load() call c was built
\* for: the j-th entry whose request was answered with an article.
DocumentTask(c, j) ==
    CHOOSE i \in AnsweredAt(c) : Cardinality({k \in AnsweredAt(c) : k <= i}) = j

\* The article the j-th document of load() call c was built from.
DocumentArticle(c, j) ==
    Get(loads[c].tasks[DocumentTask(c, j)].outcome.data, "article")

\* The flag of the loader behind query parameter f is enabled.
LoaderFlagEnabled(f) == Effective(ctor.params[LoaderFlagParam[f]], f) = Bool(TRUE)

\* C18: the content of every document is the article's text, when the text
\* flag is enabled and the text is there, then 'HTML: ' and the article's
\* HTML, when the html flag is enabled and the HTML is there, with a blank
\* line between the two; a part whose flag is disabled is left out even when
\* the article has the field.
C18_ContentFollowsFlags ==
    \A c \in DOMAIN loads : \A j \in DOMAIN loads[c].result :
        LET text == Get(DocumentArticle(c, j), "text")
            html == Get(DocumentArticle(c, j), "html")
            hasText == LoaderFlagEnabled("text") /\ NonEmpty(text)
            hasHtml == LoaderFlagEnabled("html") /\ NonEmpty(html)
        IN loads[c].result[j].pageContent =
               IF hasText /\ hasHtml THEN text.s \o "\n\n" \o "HTML: " \o html.s
               ELSE IF hasText THEN text.s
               ELSE IF hasHtml THEN "HTML: " \o html.s
               ELSE ""

\* A loader with extractText: false and extractHtml: true loaded an article
\* that has both text and HTML: the content is the HTML part alone.
C18_Witness ==
    \E c \in DOMAIN loads :
        /\ loads[c].pc = "returned"
        /\ ctor.params.extractText = Bool(FALSE)
        /\ ctor.params.extractHtml = Bool(TRUE)
        /\ loads[c].tasks[1].outcome = ArticleResponse(TestArticle)
        /\ Len(loads[c].result) = 1
        /\ loads[c].result[1].pageContent = "HTML: <p>This is the article HTML content.</p>"

\* C19: every document has the metadata keys source, url and canonical_url;
\* source is the requested URL, and url and canonical_url are the article's
\* field of that name, or the requested URL when the article has no such
\* field.
C19_SourceUrlCanonicalUrl ==
    \A c \in DOMAIN loads : \A j \in DOMAIN loads[c].result :
        LET metadata == loads[c].result[j].metadata
            article == DocumentArticle(c, j)
            requested == Str(loads[c].tasks[DocumentTask(c, j)].url)
        IN /\ {"source", "url", "canonical_url"} \subseteq DOMAIN metadata
           /\ metadata["source"] = requested
           /\ \A k \in {"url", "canonical_url"} :
                 /\ Get(article, k) = Undefined => metadata[k] = requested
                 /\ NonEmpty(Get(article, k)) => metadata[k] = Get(article, k)

\* An article without url but with canonical_url was loaded: url is the
\* requested URL and canonical_url is the article's.
C19_Witness ==
    \E c \in DOMAIN loads :
        /\ loads[c].pc = "returned"
        /\ Len(loads[c].result) = 1
        /\ Get(DocumentArticle(c, 1), "url") = Undefined
        /\ loads[c].result[1].metadata["source"] = Str(Url1)
        /\ loads[c].result[1].metadata["url"] = Str(Url1)
        /\ loads[c].result[1].metadata["canonical_url"] = Str("https://example.com/article")

\* The metadata keys that are copied from the article when it has them.
OptionalMetadataKeys ==
    {"title", "author", "pub_date", "language", "site_name", "summary", "image", "images"}

\* C20 (as claimed): each of the keys title, author, pub_date, language,
\* site_name, summary, image and images is in a document's metadata only when
\* the article's field is non-empty, author, pub_date and images only when
\* their flag is enabled too, and its value is the article's field.
C20_OptionalMetadataOnlyIfNonEmpty ==
    \A c \in DOMAIN loads : \A j \in DOMAIN loads[c].result :
        \A k \in OptionalMetadataKeys :
            k \in DOMAIN loads[c].result[j].metadata =>
                /\ NonEmpty(Get(DocumentArticle(c, j), k))
                /\ k \in {"author", "pub_date", "images"} => LoaderFlagEnabled(k)
                /\ loads[c].result[j].metadata[k] = Get(DocumentArticle(c, j), k)

\* C21 (as claimed): every document has the metadata keys source and url,
\* and every other key of its metadata is there only if the article's field of
\* that name is non-empty and the key's flag, when it has one, is enabled.
C21_OnlySourceAndUrlUnconditional ==
    \A c \in DOMAIN loads : \A j \in DOMAIN loads[c].result :
        /\ {"source", "url"} \subseteq DOMAIN loads[c].result[j].metadata
        /\ \A k \in DOMAIN loads[c].result[j].metadata \ {"source", "url"} :
              /\ NonEmpty(Get(DocumentArticle(c, j), k))
              /\ k \in {"author", "pub_date", "images"} => LoaderFlagEnabled(k)

-----------------------------------------------------------------------------
(* SpecCalls: up to MaxCalls calls, sequential or overlapping, on one      *)
(* instance built with or without a base URL.                              *)

CallsLoaderParams ==
    {LoaderParams(<<Url1, Url2>>, Str(ParamApiKey), NoFlags, baseUrl) :
        baseUrl \in BaseUrlValues}

CallsToolParams == {ToolParams(Str(ParamApiKey), baseUrl) : baseUrl \in BaseUrlValues}

CallsToolInputs ==
    {Str(Url1), Str(JSONStringify(ToolInputObject(Str(Url2), InvertedFlags)))}

CallsOutcomes == {ArticleResponse(TestArticle), HttpError(404)}

NextCalls ==
    \/ \E params \in CallsLoaderParams : NewUjeebuLoader(params)
    \/ \E params \in CallsToolParams : NewUjeebuExtractTool(params)
    \/ Load
    \/ \E c \in DOMAIN loads : \E i \in DOMAIN loads[c].tasks :
          \E outcome \in CallsOutcomes : Settle(c, i, outcome, 0)
    \/ ThenCallback
    \/ \E c \in DOMAIN loads : LoadReturn(c)
    \/ \E input \in CallsToolInputs : Call(input, input)
    \/ \E c \in DOMAIN calls : \E outcome \in CallsOutcomes : CallSettle(c, outcome)

SpecCalls == Init /\ [][NextCalls]_vars

-----------------------------------------------------------------------------
(* Claims about several calls on one instance, under SpecCalls.            *)

\* The baseUrl parameter the constructor was given.
CtorBaseUrl ==
    IF ctor.component = "UjeebuExtractTool" /\ ctor.params = Undefined
    THEN Undefined
    ELSE ctor.params.baseUrl

\* Where the requests of the instance are to go.
ExpectedBaseUrl == IF CtorBaseUrl = Undefined THEN Str(DefaultBaseUrl) ELSE CtorBaseUrl

\* C22: every request of every call on an instance is a GET to the baseUrl
\* its constructor was given, or to https://api.ujeebu.com/extract when it
\* was given none; the target is the same for all calls of the instance.
C22_RequestsGoToBaseUrl ==
    /\ \A c \in DOMAIN loads : \A i \in DOMAIN loads[c].tasks :
          /\ loads[c].tasks[i].request.method = "GET"
          /\ loads[c].tasks[i].request.baseUrl = ExpectedBaseUrl
    /\ \A c \in DOMAIN calls :
          calls[c].request # NoRequest =>
              /\ calls[c].request.method = "GET"
              /\ calls[c].request.baseUrl = ExpectedBaseUrl

\* A tool built with a custom base URL was called twice, the second time
\* after the first request had failed: both requests went to the custom URL.
C22_Witness ==
    /\ ctor.component = "UjeebuExtractTool"
    /\ ctor.params.baseUrl = Str(CustomBaseUrl)
    /\ Len(calls) = 2
    /\ calls[1].outcome = HttpError(404)
    /\ calls[1].request.baseUrl = Str(CustomBaseUrl)
    /\ calls[2].request.baseUrl = Str(CustomBaseUrl)

-----------------------------------------------------------------------------
(* Claims about the requests and the failures of one call, under Spec.     *)

\* The requests load() call c issued for url.
RequestsFor(c, url) ==
    {i \in DOMAIN loads[c].tasks : loads[c].tasks[i].request.params.url = Str(url)}

\* The entries of the loader's URL list that are url.
EntriesOf(url) == {i \in DOMAIN loader.urls : loader.urls[i] = url}

\* A load() has one request per entry of the URL list, a URL listed twice
\* being requested twice, and a request that has settled is not in flight
\* again: extractArticle has run to its end for it.
OneRequestPerEntry ==
    \A c \in DOMAIN loads :
        /\ Len(loads[c].tasks) = Len(loader.urls)
        /\ \A url \in Urls :
              Cardinality(RequestsFor(c, url)) = Cardinality(EntriesOf(url))
        /\ \A i \in DOMAIN loads[c].tasks :
              loads[c].tasks[i].outcome # NoOutcome =>
                  loads[c].tasks[i].extracted.state # "pending"

\* C23 (as claimed): a load() of N URLs issues exactly N requests, one per
\* entry of the list, and a _call with a non-empty input issues exactly one.
C23_OneRequestPerNonEmptyInput ==
    /\ OneRequestPerEntry
    /\ \A c \in DOMAIN calls : Truthy(calls[c].input) => calls[c].request # NoRequest

\* The three messages _call has for the statuses 401, 404 and 408.
StatusMessages == {"Invalid API key", "Article not found", "Request timeout"}

\* C24: when the request of _call fails without a response, or with a
\* status that is none of 401, 404 and 408, the string returned is
\* 'Error extracting article: ' followed by the message of the error, and it
\* holds none of the three messages kept for those statuses.
C24_GenericErrorCarriesMessage ==
    \A c \in DOMAIN calls :
        (/\ calls[c].pc = "returned"
         /\ calls[c].outcome.kind = "error"
         /\ FailureStatus(calls[c].outcome) \notin {401, 404, 408}) =>
            /\ calls[c].result =
                  "Error extracting article: " \o calls[c].outcome.message
            /\ \A m \in StatusMessages : ~Contains(calls[c].result, m)

\* The connection was reset: the string returned carries that message.
C24_Witness ==
    \E c \in DOMAIN calls :
        /\ calls[c].pc = "returned"
        /\ calls[c].outcome = NetworkError("read ECONNRESET")
        /\ calls[c].result = "Error extracting article: read ECONNRESET"

\* The request was answered, and the body holds no article object.
NoArticleObject(outcome) ==
    /\ outcome.kind = "response"
    /\ ~(outcome.data.t = "object" /\ Get(outcome.data, "article").t = "object")

\* C25 (as claimed): when a request is answered 200 with a body that holds
\* no article object, _call returns an error string and load() has no
\* document for that entry; neither throws.
C25_NoArticleIsAFailure ==
    /\ \A c \in DOMAIN calls :
          (calls[c].outcome # NoOutcome /\ NoArticleObject(calls[c].outcome)) =>
              /\ calls[c].pc = "returned"
              /\ Contains(calls[c].result, "Error")
    /\ \A c \in DOMAIN loads :
          /\ loads[c].pc # "rejected"
          /\ loads[c].pc = "returned" =>
                Len(loads[c].result) =
                    Cardinality({i \in DOMAIN loads[c].tasks :
                                    /\ loads[c].tasks[i].outcome.kind = "response"
                                    /\ ~NoArticleObject(loads[c].tasks[i].outcome)})

\* C30 (as claimed): every request _call issues has a non-empty string as
\* its url query parameter.
C30_RequestHasTargetUrl ==
    \A c \in DOMAIN calls :
        calls[c].request # NoRequest =>
            /\ calls[c].request.params.url.t = "string"
            /\ calls[c].request.params.url.s # ""

-----------------------------------------------------------------------------
(* A claim about several calls on one instance, under SpecCalls.           *)

\* The documents of the entries of load() call c that were answered with an
\* article, in the order of the URL list.
OwnDocuments(c) ==
    [j \in 1..Cardinality(AnsweredAt(c)) |->
        BuildDocument(loader, loads[c].tasks[DocumentTask(c, j)].url,
                      DocumentArticle(c, j)).doc]

\* C27: the calls made on one instance share nothing that changes: the
\* fields of the instance stay what the constructor made them; every load()
\* has its own request for every entry of the URL list, each settled by its
\* own response only, and returns the documents of its own responses; every
\* _call has its own request and returns the report of its own response.
C27_CallsShareNoState ==
    /\ loader # NoInstance => loader = LoaderFields(ctor.params, ctor.env)
    /\ tool # NoInstance => tool = ToolFields(ctor.params, ctor.env)
    /\ \A c \in DOMAIN loads :
          /\ Len(loads[c].tasks) = Len(loader.urls)
          /\ \A i \in DOMAIN loads[c].tasks :
                /\ loads[c].tasks[i].request = LoaderRequest(loader, loader.urls[i])
                /\ loads[c].tasks[i].extracted.state = "pending"
                      <=> loads[c].tasks[i].outcome = NoOutcome
                /\ loads[c].tasks[i].state # "pending" =>
                      /\ loads[c].tasks[i].outcome # NoOutcome
                      /\ loads[c].tasks[i].value.url = loader.urls[i]
                      /\ loads[c].tasks[i].value.article =
                            ExtractArticle(loader.urls[i], loads[c].tasks[i].outcome).value
          /\ loads[c].pc = "returned" => loads[c].result = OwnDocuments(c)
          /\ loads[c].pc = "awaiting" => loads[c].result = <<>>
    /\ \A c \in DOMAIN calls :
          /\ calls[c].request = ToolRequest(tool, calls[c].d)
          /\ calls[c].pc = "awaiting" <=> calls[c].outcome = NoOutcome
          /\ calls[c].pc = "returned" =>
                calls[c].result = CallResult(calls[c].d, calls[c].outcome).text

\* Two load() calls overlap: the second was made and has returned both
\* documents while the first, whose request for the first URL failed, still
\* waits for its other request.
C27_Witness ==
    /\ Len(loads) = 2
    /\ loads[1].pc = "awaiting"
    /\ loads[1].tasks[1].outcome = HttpError(404)
    /\ loads[1].tasks[2].state = "pending"
    /\ loads[2].pc = "returned"
    /\ Len(loads[2].result) = 2

-----------------------------------------------------------------------------
(* SpecOrder: one load() whose completions are timed: the k-th request to  *)
(* complete is stamped k.                                                  *)

OrderLoaderParams ==
    {LoaderParams(urls, Str(ParamApiKey), NoFlags, Undefined) : urls \in UrlLists}

OrderOutcomes == {ArticleResponse(TestArticle), Response(Obj(<<>>)), HttpError(404)}

\* The number of requests of load() call c that have completed.
Completed(c) ==
    Cardinality({i \in DOMAIN loads[c].tasks : loads[c].tasks[i].outcome # NoOutcome})

NextOrder ==
    \/ \E params \in OrderLoaderParams : NewUjeebuLoader(params)
    \/ (loads = <<>> /\ Load)
    \/ \E c \in DOMAIN loads : \E i \in DOMAIN loads[c].tasks :
          \E outcome \in OrderOutcomes : Settle(c, i, outcome, Completed(c) + 1)
    \/ ThenCallback
    \/ \E c \in DOMAIN loads : LoadReturn(c)

SpecOrder == Init /\ [][NextOrder]_vars

-----------------------------------------------------------------------------
(* Claims about the order of completion, under SpecOrder.                  *)

\* The documents a load() is to return for the outcomes of its entries: a
\* function of the URL list and of the outcome of each entry, in which the
\* order of completion has no part.
DocumentsOfOutcomes(c) ==
    LET Answered(i) == AnsweredWithArticle(loads[c].tasks[i].outcome)
        kept == SelectSeq([i \in 1..Len(loads[c].tasks) |-> i], Answered)
    IN [j \in 1..Len(kept) |->
           BuildDocument(loader, loader.urls[kept[j]],
                         Get(loads[c].tasks[kept[j]].outcome.data, "article")).doc]

\* C26: whatever the order in which its requests completed, a load() returns
\* the list that its URL list and the outcome of each entry determine: the
\* same documents, with the same content and metadata, for every interleaving.
C26_ResultIndependentOfCompletionOrder ==
    \A c \in DOMAIN loads :
        loads[c].pc = "returned" => loads[c].result = DocumentsOfOutcomes(c)

\* The requests of a load() of three URLs completed last first, the second
\* one failing: the documents of the first and of the third were returned.
C26_Witness ==
    \E c \in DOMAIN loads :
        /\ loads[c].pc = "returned"
        /\ Len(loads[c].tasks) = 3
        /\ loads[c].tasks[3].at = 1
        /\ loads[c].tasks[2].at = 2
        /\ loads[c].tasks[1].at = 3
        /\ AnsweredAt(c) = {1, 3}
        /\ Len(loads[c].result) = 2

\* The URLs of the entries that were answered with an article, in the order
\* of the URL list.
SourcesInInputOrder(c) ==
    LET Answered(i) == AnsweredWithArticle(loads[c].tasks[i].outcome)
        kept == SelectSeq([i \in 1..Len(loader.urls) |-> i], Answered)
    IN [j \in 1..Len(kept) |-> Str(loader.urls[kept[j]])]

\* C29: the metadata.source values of the documents a load() returns are, in
\* order, the URLs of the input list without those of the entries that
\* failed, whatever the order in which the requests completed.
C29_DocumentsInInputOrder ==
    \A c \in DOMAIN loads :
        loads[c].pc = "returned" =>
            [j \in 1..Len(loads[c].result) |-> loads[c].result[j].metadata["source"]]
                = SourcesInInputOrder(c)

\* The request for the second URL completed before the request for the
\* first, and the document of the first URL comes first all the same.
C29_Witness ==
    \E c \in DOMAIN loads :
        /\ loads[c].pc = "returned"
        /\ loader.urls = <<Url1, Url2>>
        /\ loads[c].tasks[2].at = 1
        /\ loads[c].tasks[1].at = 2
        /\ Len(loads[c].result) = 2
        /\ loads[c].result[1].metadata["source"] = Str(Url1)
        /\ loads[c].result[2].metadata["source"] = Str(Url2)

-----------------------------------------------------------------------------
(* SpecLive: one load() under the scheduling the code relies on: every     *)
(* request settles (axios gives up after the 60 s timeout at the latest),  *)
(* and the event loop runs a callback or a continuation that is ready.     *)

LiveOutcomes == OrderOutcomes \cup {NetworkError("timeout of 60000ms exceeded")}

NextLive ==
    \/ \E params \in OrderLoaderParams : NewUjeebuLoader(params)
    \/ (loads = <<>> /\ Load)
    \/ \E c \in DOMAIN loads : \E i \in DOMAIN loads[c].tasks :
          \E outcome \in LiveOutcomes : Settle(c, i, outcome, 0)
    \/ ThenCallback
    \/ \E c \in DOMAIN loads : LoadReturn(c)

SpecLive ==
    /\ Init
    /\ [][NextLive]_vars
    /\ WF_vars(\E c \in DOMAIN loads : \E i \in DOMAIN loads[c].tasks :
                   \E outcome \in LiveOutcomes : Settle(c, i, outcome, 0))
    /\ WF_vars(ThenCallback)
    /\ WF_vars(\E c \in DOMAIN loads : LoadReturn(c))

\* C28: every load() that was called eventually returns, given that every
\* request it issued eventually settles; a load() of an empty URL list issues
\* no request and returns the empty list.
C28_LoadEventuallyReturns ==
    /\ \A c \in 1..MaxCalls :
          (c \in DOMAIN loads) ~> (c \in DOMAIN loads /\ loads[c].pc = "returned")
    /\ [](\A c \in DOMAIN loads :
             loader.urls = <<>> =>
                 /\ loads[c].tasks = <<>>
                 /\ loads[c].pc = "returned" => loads[c].result = <<>>)

\* A load() returned the empty list after each of its requests had run
\* into the local timeout.
C28_Witness ==
    \E c \in DOMAIN loads :
        /\ loads[c].pc = "returned"
        /\ Len(loads[c].tasks) >= 2
        /\ \A i \in DOMAIN loads[c].tasks :
              loads[c].tasks[i].outcome = NetworkError("timeout of 60000ms exceeded")
        /\ loads[c].result = <<>>

====
